---- MODULE Spec2Model ----
(***************************************************************************)
(* RadioGlobeCore (src/radioglobe_core.py): the station cache kept in the  *)
(* SQLite file radio_cache.db, the directory client behind get_stations,   *)
(* and the playback session that commands one VLC player.                  *)
(*                                                                         *)
(* Time is counted in whole hours.  The directory service, the SQLite      *)
(* library and the VLC engine are outside the source; each is modelled by  *)
(* the outcomes its calls can have (a value, or an exception).             *)
(***************************************************************************)
EXTENDS Integers, Sequences, FiniteSets, TLC

VARIABLES
    store,        \* rows committed to table stations of radio_cache.db, in rowid order
    clock,        \* datetime.now(), in hours
    call,         \* what the last get_stations call did and returned
    volume,       \* self.volume
    playerState,  \* libvlc state of self.player
    playerMedia,  \* index in medias of the media bound to self.player, 0 if none
    playerVolume, \* volume last set on self.player, -1 if never set
    medias,       \* media objects created by instance.media_new: [url, refs]
    pcall,        \* what the last play / set_volume / stop call did and returned
    handles       \* self.instance and self.player: whether set, and their releases

cacheVars == <<store, clock, call>>
playVars  == <<volume, playerState, playerMedia, playerVolume, medias, pcall,
               handles>>
vars      == <<store, clock, call, volume, playerState, playerMedia,
               playerVolume, medias, pcall, handles>>

----------------------------------------------------------------------------
(* Bounds of the model *)

MaxTime  == 8    \* the clock stops here
MaxDelay == 1    \* longest time a directory request takes
MaxBatch == 2    \* longest directory response
MaxMedia == 3    \* media objects created in one run

----------------------------------------------------------------------------
(* Values *)

None == "None"           \* Python None, SQL NULL

Range(s) == {s[i] : i \in 1..Len(s)}

cache_expiry == 6        \* timedelta(hours=6)

InitVolume == 70         \* self.volume = 70

Countries == {"X", "Y"}

\* A station object of the directory's JSON answer.  stationuuid is None
\* when the object lacks the key: s.get('stationuuid') is then None.
Station(uuid, name, url, country) ==
    [stationuuid |-> uuid, name |-> name, url |-> url, country |-> country,
     countrycode |-> country, tags |-> "", homepage |-> None,
     geo_lat |-> None, geo_long |-> None]

DirectoryRecords ==
    { Station("s1", "A", "urlA", "X"),
      Station(None, "C", "urlB", "X"),
      Station("s2", "B", "urlB", "Y") }

\* The JSON arrays the directory can answer with.
Responses ==
    UNION { [1..n -> DirectoryRecords] : n \in 0..MaxBatch }

\* What requests.get(...), raise_for_status() and response.json() can do:
\* answer with a JSON array (kind "ok"), or raise.
TransportFailures == {"unreachable", "timeout", "non2xx", "malformed"}

Answers ==
    { [kind |-> "ok", body |-> b] : b \in Responses } \cup
    { [kind |-> k, body |-> <<>>] : k \in TransportFailures }

\* What the world outside does during one get_stations call.  read: the
\* SELECT runs ("ok") or raises sqlite3.Error ("fails"); answer: what the
\* directory request does; delay: how long it takes; write: executemany
\* runs or raises.
Environments ==
    { [read |-> "fails", answer |-> [kind |-> "timeout", body |-> <<>>],
       delay |-> 0, write |-> "ok"] } \cup
    { [read |-> "ok", answer |-> a, delay |-> d, write |-> w] :
        a \in Answers, d \in {0, MaxDelay}, w \in {"ok", "fails"} }

----------------------------------------------------------------------------
(* Station Store: table stations of radio_cache.db *)

\* The row _cache_stations binds for station object s at time now.
RowOf(s, now) ==
    [id |-> s.stationuuid, name |-> s.name, url |-> s.url,
     country |-> s.country, code |-> s.countrycode, tags |-> s.tags,
     homepage |-> s.homepage, lat |-> s.geo_lat, lon |-> s.geo_long,
     last_updated |-> now]

\* INSERT OR REPLACE on a table whose key is id TEXT PRIMARY KEY: a row
\* with the same non-NULL id is deleted and the new row is added; a NULL id
\* conflicts with nothing, so the row is added beside the others.
InsertOrReplace(table, row) ==
    IF row.id = None
    THEN Append(table, row)
    ELSE Append(SelectSeq(table, LAMBDA r : r.id # row.id), row)

RECURSIVE executemany(_, _)
executemany(table, rows) ==
    IF rows = <<>> THEN table
    ELSE executemany(InsertOrReplace(table, Head(rows)), Tail(rows))

\* closing(sqlite3.connect(...)): leaving the block calls conn.close() and
\* nothing else.  The rows written by an INSERT are in a transaction that
\* sqlite3 opened implicitly; they reach the file only on conn.commit().
close(db, table, committed) == IF committed THEN table ELSE db

\* _cache_stations binding a fixed time 0 instead of datetime.now().
CacheTxn_unstamped(db, stations, now) ==
    executemany(db, [i \in 1..Len(stations) |-> RowOf(stations[i], 0)])

\* The rows the connection of _cache_stations sees after executemany.
CacheTxn(db, stations, now) ==
    executemany(db, [i \in 1..Len(stations) |-> RowOf(stations[i], now)])

\* _cache_stations with a plain committed INSERT into a table without
\* a key: every row of the batch is added.
_cache_stations_insert_only(db, stations, now) ==
    db \o [i \in 1..Len(stations) |-> RowOf(stations[i], now)]

\* The file after _cache_stations(stations) at time now.
_cache_stations(db, stations, now) ==
    close(db, CacheTxn(db, stations, now), FALSE)

\* The comparison written as last_updated >= ?
Fresh_inclusive(row, now) == row.last_updated >= now - cache_expiry

\* WHERE country = ? AND last_updated > ?  with ? = now - cache_expiry
Fresh(row, now) == row.last_updated > now - cache_expiry

\* The SELECT without its country condition.
_get_cached_stations_any_country(db, country, now) ==
    SelectSeq(db, LAMBDA r : Fresh(r, now))

\* _get_cached_stations, lines 97-106
_get_cached_stations(db, country, now) ==
    SelectSeq(db, LAMBDA r : r.country = country /\ Fresh(r, now))

----------------------------------------------------------------------------
(* Cache Orchestrator: get_stations *)

NoCall ==
    [op |-> "none", country |-> None, at |-> 0, before |-> <<>>,
     cached |-> <<>>, netCalls |-> 0, fetched |-> <<>>, wrote |-> FALSE,
     txn |-> <<>>, stations |-> <<>>, count |-> 0, raised |-> FALSE,
     logged |-> FALSE, failure |-> "none", repeat |-> FALSE]

\* The try block of get_stations, lines 72-92.  readFails: the SELECT
\* raises sqlite3.Error; answer: the directory's JSON array or the way the
\* request fails; writeFails: executemany raises; delay: the time the
\* request took.  raised = TRUE is an exception leaving the block.
\* call.at is the time of the SELECT, call.before the file at entry,
\* call.cached the rows the SELECT gave, call.fetched the JSON array,
\* call.txn the table as the writing connection saw it before close,
\* call.failure what raised ("read", "write" or the transport failure).
get_stations_try(db, country, now, readFails, answer, delay, writeFails) ==
    LET base   == [NoCall EXCEPT !.op = "get_stations", !.country = country,
                                 !.at = now, !.before = db]
        cached == _get_cached_stations(db, country, now)
    IN  IF readFails
        THEN [call |-> [base EXCEPT !.raised = TRUE, !.failure = "read"],
              db |-> db, now |-> now]
        ELSE IF cached # <<>>
        THEN [call |-> [base EXCEPT !.cached = cached, !.stations = cached,
                                    !.count = Len(cached)],
              db |-> db, now |-> now]
        ELSE IF answer.kind \in TransportFailures
        THEN [call |-> [base EXCEPT !.netCalls = 1, !.raised = TRUE,
                                    !.failure = answer.kind],
              db |-> db, now |-> now + delay]
        ELSE IF writeFails
        THEN [call |-> [base EXCEPT !.netCalls = 1, !.fetched = answer.body,
                                    !.raised = TRUE, !.failure = "write"],
              db |-> db, now |-> now + delay]
        ELSE [call |-> [base EXCEPT !.netCalls = 1, !.fetched = answer.body,
                                    !.wrote = TRUE,
                                    !.txn = CacheTxn(db, answer.body, now + delay),
                                    !.stations = answer.body,
                                    !.count = Len(answer.body)],
              db |-> _cache_stations(db, answer.body, now + delay),
              now |-> now + delay]

\* get_stations without its except clause: the exception leaves it.
get_stations_no_except(r) == r

\* except Exception as e: log the error and return [], 0  (lines 93-95)
get_stations_except(r) ==
    IF r.call.raised
    THEN [r EXCEPT !.call.raised = FALSE, !.call.logged = TRUE,
                   !.call.stations = <<>>, !.call.count = 0]
    ELSE r

\* get_stations that, when the directory answers with no station, stores
\* and commits a marker row for the country.
get_stations_negative_cache(db, country, now, readFails, answer, delay, writeFails) ==
    LET r == get_stations_except(
                 get_stations_try(db, country, now, readFails, answer, delay,
                                  writeFails))
    IN  IF r.call.wrote /\ r.call.fetched = <<>>
        THEN [r EXCEPT !.db = Append(db, RowOf(Station("empty", "", None,
                                                       country), r.now))]
        ELSE r

get_stations(db, country, now, readFails, answer, delay, writeFails) ==
    get_stations_except(
        get_stations_try(db, country, now, readFails, answer, delay, writeFails))

GetStations ==
    \E country \in Countries, env \in Environments :
        /\ handles.instance /\ handles.player /\ ~handles.disposed
        /\ clock + env.delay <= MaxTime
        /\ env.write = "fails" => env.answer.kind = "ok"
        /\ LET r == get_stations(store, country, clock, env.read = "fails",
                                 env.answer, env.delay, env.write = "fails")
           IN  /\ store' = r.db
               /\ clock' = r.now
               \* call.repeat: this call wrote the batch the call before
               \* it wrote
               /\ call'  = [r.call EXCEPT !.repeat =
                               /\ r.call.wrote /\ call.wrote
                               /\ r.call.fetched = call.fetched]
        /\ UNCHANGED playVars

\* Time passes between two calls.
Tick ==
    /\ clock < MaxTime
    /\ clock' = clock + 1
    /\ UNCHANGED <<store, call>>
    /\ UNCHANGED playVars

\* radio_cache.db outlives the process: _init_cache_db creates the table
\* only IF NOT EXISTS, so the rows a file already holds are kept.  A row
\* is stamped no later than the time the process starts.
StartTime == 2

StoredRow(uuid, name, country, at) ==
    RowOf(Station(uuid, name, "urlA", country), at)

InitStores ==
    { <<>>,
      <<StoredRow("s1", "A0", "X", 0)>>,
      <<StoredRow("s1", "A0", "X", 0), StoredRow("s3", "D", "X", 2)>>,
      <<StoredRow("s3", "D", "X", 1), StoredRow("s2", "B", "Y", 2)>> }

InitCache ==
    /\ store \in InitStores
    /\ clock = StartTime
    /\ call = NoCall

----------------------------------------------------------------------------
(* Media engine: the VLC instance and its one player *)

Urls == {"urlA", "urlB"}

\* libvlc states of a media player.
PlayerStates ==
    {"NothingSpecial", "Opening", "Playing", "Stopped", "Ended", "Error"}

\* The session and its engine as one value.
Session ==
    [volume |-> volume, playerState |-> playerState,
     playerMedia |-> playerMedia, playerVolume |-> playerVolume,
     medias |-> medias]

\* self.player.is_playing()
is_playing(S) == S.playerState = "Playing"

\* A stop that also puts the session's volume back to its default.
player_stop_resets(S) ==
    [S EXCEPT !.playerState = "Stopped", !.volume = InitVolume]

\* self.player.stop()
player_stop(S) == [S EXCEPT !.playerState = "Stopped"]

\* self.instance.media_new(url): a new media object, held by one
\* reference, the one returned to the caller.
media_new(S, url) ==
    [S EXCEPT !.medias = Append(@, [url |-> url, refs |-> 1])]

\* self.player.set_media(media): the player ends what it was playing,
\* drops its reference to the media it held and takes one to the new.
set_media(S, m) ==
    LET old  == S.playerMedia
        drop == IF old = 0 THEN S.medias
                ELSE [S.medias EXCEPT ![old].refs = @ - 1]
    IN  [S EXCEPT !.medias = [drop EXCEPT ![m].refs = @ + 1],
                  !.playerMedia = m,
                  !.playerState = "NothingSpecial"]

\* self.player.audio_set_volume(v)
audio_set_volume(S, v) == [S EXCEPT !.playerVolume = v]

\* self.player.play() answering 0: the stream is being opened.
player_play(S) == [S EXCEPT !.playerState = "Opening"]

\* self.player.release(): the player is destroyed; that ends its stream
\* and drops the reference it holds to its media.
player_release(S) ==
    LET old == S.playerMedia
    IN  [S EXCEPT !.medias = IF old = 0 THEN @
                             ELSE [@ EXCEPT ![old].refs = @ - 1],
                  !.playerMedia = 0,
                  !.playerState = "Stopped"]

----------------------------------------------------------------------------
(* Construction and disposal of the session *)

\* hasattr(self, 'instance') and hasattr(self, 'player'), the releases
\* made of each, whether __del__ has run, and the media the player held
\* when it ran (0 if none).
Handles(instance, player) ==
    [instance |-> instance, player |-> player,
     instanceReleases |-> 0, playerReleases |-> 0,
     disposed |-> FALSE, loaded |-> 0]

\* __init__, lines 18-22: both handles are set; or vlc.Instance() raised
\* and neither is; or media_player_new() raised and only the instance is.
\* In the last two __init__ raises RuntimeError.
Constructions ==
    {Handles(TRUE, TRUE), Handles(FALSE, FALSE), Handles(TRUE, FALSE)}

\* __init__ returned and __del__ has not run: the methods can be called.
Constructed == handles.instance /\ handles.player /\ ~handles.disposed

----------------------------------------------------------------------------
(* Playback Session: play, set_volume, stop *)

NoPCall ==
    [op |-> "none", url |-> None, v |-> 0, fail |-> "none",
     wasPlaying |-> FALSE, cmds |-> <<>>, ret |-> FALSE, raised |-> FALSE,
     logged |-> FALSE, priorVolume |-> InitVolume, prevPlay |-> "none",
     left |-> "NothingSpecial", idleStops |-> 0]

\* The outcome of the latest play call that came before the next call.
PrevPlay ==
    IF pcall.op = "play" THEN (IF pcall.ret THEN "ok" ELSE "failed")
    ELSE pcall.prevPlay

\* Where the engine can fail inside play: the named call raises, or
\* ("play_rejected") player.play() answers -1.
PlayFailures ==
    {"is_playing", "stop", "media_new", "add_option", "set_media",
     "audio_set_volume", "play_raises", "play_rejected"}

\* play without the stop of what is playing.
stop_current_never(S) == [S |-> S, cmds |-> <<"is_playing">>]

\* if self.player.is_playing(): self.player.stop()   (lines 140-141)
stop_current(S) ==
    IF is_playing(S)
    THEN [S |-> player_stop(S), cmds |-> <<"is_playing", "stop">>]
    ELSE [S |-> S, cmds |-> <<"is_playing">>]

\* The try block of play, lines 140-146.  fail names the engine call that
\* fails, "none" if all succeed; a url of None is what makes media_new
\* raise.
\* cmds lists the engine commands that completed, in order.  In pcall,
\* left is the state the player is in when the call returns, prevPlay
\* the outcome of the play call before this call.
play_try(S, url, fail) ==
    LET was  == is_playing(S)
        s1   == stop_current(S).S
        c1   == stop_current(S).cmds
        s2   == media_new(s1, url)
        m    == Len(s2.medias)
        s3   == set_media(s2, m)
        s4   == audio_set_volume(s3, S.volume)
        s5   == player_play(s4)
        out(T, c, ret, raised) ==
            [S |-> T, cmds |-> c, wasPlaying |-> was /\ fail # "is_playing",
             ret |-> ret, raised |-> raised]
    IN  IF fail = "is_playing" THEN out(S, <<>>, FALSE, TRUE)
        ELSE IF fail = "stop" /\ was THEN out(S, <<"is_playing">>, FALSE, TRUE)
        ELSE IF fail = "media_new" THEN out(s1, c1, FALSE, TRUE)
        ELSE IF fail = "add_option"
        THEN out(s2, c1 \o <<"media_new">>, FALSE, TRUE)
        ELSE IF fail = "set_media"
        THEN out(s2, c1 \o <<"media_new", "add_option">>, FALSE, TRUE)
        ELSE IF fail = "audio_set_volume"
        THEN out(s3, c1 \o <<"media_new", "add_option", "set_media">>,
                 FALSE, TRUE)
        ELSE IF fail = "play_raises"
        THEN out(s4, c1 \o <<"media_new", "add_option", "set_media",
                             "audio_set_volume">>, FALSE, TRUE)
        ELSE IF fail = "play_rejected"
        THEN out(s4, c1 \o <<"media_new", "add_option", "set_media",
                             "audio_set_volume">>, FALSE, FALSE)
        ELSE out(s5, c1 \o <<"media_new", "add_option", "set_media",
                             "audio_set_volume", "play">>, TRUE, FALSE)

\* play without its except clause: the exception leaves it, unlogged.
play_no_except(r) == r @@ [logged |-> FALSE]

\* play answering True whenever no exception was raised, whatever
\* player.play() answered.
play_except_any_answer(r) ==
    [r EXCEPT !.raised = FALSE, !.ret = ~r.raised] @@ [logged |-> r.raised]

\* except Exception as e: log the error and return False  (lines 147-149)
play_except(r) ==
    [r EXCEPT !.raised = FALSE, !.ret = IF r.raised THEN FALSE ELSE @]
        @@ [logged |-> r.raised]

play(S, url, fail) == play_except(play_try(S, url, fail))

Play ==
    \E url \in Urls \cup {None}, fail \in PlayFailures \cup {"none"} :
        /\ Constructed
        /\ Len(medias) < MaxMedia
        /\ fail = "stop" => is_playing(Session)
        /\ url = None <=> fail = "media_new"
        /\ LET r == play(Session, url, fail)
           IN  /\ volume' = r.S.volume
               /\ playerState' = r.S.playerState
               /\ playerMedia' = r.S.playerMedia
               /\ playerVolume' = r.S.playerVolume
               /\ medias' = r.S.medias
               /\ pcall' = [NoPCall EXCEPT
                               !.op = "play", !.url = url, !.fail = fail,
                               !.wasPlaying = r.wasPlaying, !.cmds = r.cmds,
                               !.ret = r.ret, !.raised = r.raised,
                               !.logged = r.logged, !.priorVolume = volume,
                               !.left = r.S.playerState,
                               !.prevPlay = PrevPlay]
        /\ UNCHANGED handles
        /\ UNCHANGED cacheVars

\* set_volume that stores the volume and does not pass it to the player.
set_volume_session_only(S, v) ==
    IF 0 <= v /\ v <= 100
    THEN [S |-> [S EXCEPT !.volume = v], cmds |-> <<>>]
    ELSE [S |-> S, cmds |-> <<>>]

\* set_volume without the range test.
set_volume_unchecked(S, v) ==
    [S |-> audio_set_volume([S EXCEPT !.volume = v], v),
     cmds |-> <<"audio_set_volume">>]

\* set_volume, lines 151-156.  self.player is an object, so "if
\* self.player" holds.
set_volume(S, v) ==
    IF 0 <= v /\ v <= 100
    THEN [S |-> audio_set_volume([S EXCEPT !.volume = v], v),
          cmds |-> <<"audio_set_volume">>]
    ELSE [S |-> S, cmds |-> <<>>]

VolumeInputs == {-1, 0, 100, 150}

SetVolume ==
    \E v \in VolumeInputs :
        /\ Constructed
        /\ LET r == set_volume(Session, v)
           IN  /\ volume' = r.S.volume
               /\ playerVolume' = r.S.playerVolume
               /\ pcall' = [NoPCall EXCEPT
                               !.op = "set_volume", !.v = v, !.cmds = r.cmds,
                               !.priorVolume = volume,
                               !.left = playerState,
                               !.prevPlay = PrevPlay]
        /\ UNCHANGED <<playerState, playerMedia, medias, handles>>
        /\ UNCHANGED cacheVars

\* stop that asks is_playing and never tells the engine to stop.
stop_never(S, fail) ==
    [S |-> S, cmds |-> IF fail = "is_playing" THEN <<>> ELSE <<"is_playing">>,
     wasPlaying |-> is_playing(S) /\ fail # "is_playing",
     logged |-> fail # "none"]

\* stop without the is_playing test: the engine is always told to stop.
stop_unconditional(S, fail) ==
    IF fail = "none"
    THEN [S |-> player_stop(S), cmds |-> <<"stop">>,
          wasPlaying |-> is_playing(S), logged |-> FALSE]
    ELSE [S |-> S, cmds |-> <<>>, wasPlaying |-> is_playing(S),
          logged |-> TRUE]

\* stop, lines 158-164.  fail: "is_playing" or "stop" raises, else "none".
stop(S, fail) ==
    LET was == is_playing(S)
    IN  IF fail = "is_playing"
        THEN [S |-> S, cmds |-> <<>>, wasPlaying |-> FALSE, logged |-> TRUE]
        ELSE IF was /\ fail = "stop"
        THEN [S |-> S, cmds |-> <<"is_playing">>, wasPlaying |-> TRUE,
              logged |-> TRUE]
        ELSE IF was
        THEN [S |-> player_stop(S), cmds |-> <<"is_playing", "stop">>,
              wasPlaying |-> TRUE, logged |-> FALSE]
        ELSE [S |-> S, cmds |-> <<"is_playing">>, wasPlaying |-> FALSE,
              logged |-> FALSE]

Stop ==
    \E fail \in {"none", "is_playing", "stop"} :
        /\ Constructed
        /\ fail = "stop" => is_playing(Session)
        /\ LET r == stop(Session, fail)
           IN  /\ volume' = r.S.volume
               /\ playerState' = r.S.playerState
               /\ playerMedia' = r.S.playerMedia
               /\ playerVolume' = r.S.playerVolume
               /\ medias' = r.S.medias
               /\ pcall' = [NoPCall EXCEPT
                               !.op = "stop", !.fail = fail,
                               !.wasPlaying = r.wasPlaying, !.cmds = r.cmds,
                               !.logged = r.logged, !.priorVolume = volume,
                               !.left = r.S.playerState,
                               !.prevPlay = PrevPlay,
                               \* the stop calls made in a row, the
                               \* first of them with the player idle
                               !.idleStops =
                                   IF pcall.op = "stop" /\ pcall.idleStops > 0
                                   THEN 2
                                   ELSE IF playerState = "NothingSpecial"
                                   THEN 1 ELSE 0]
        /\ UNCHANGED handles
        /\ UNCHANGED cacheVars

\* The engine on its own: an opened stream starts playing; a stream being
\* opened or played ends or fails.
EngineEvent ==
    /\ Constructed
    /\ \/ playerState = "Opening" /\ playerState' = "Playing"
       \/ playerState \in {"Opening", "Playing"}
          /\ playerState' \in {"Ended", "Error"}
    /\ UNCHANGED <<volume, playerMedia, playerVolume, medias, pcall, handles>>
    /\ UNCHANGED cacheVars

\* __del__, lines 166-171: release the player if the attribute is set,
\* then the instance if the attribute is set.  Nothing else is released.
del(S, H) ==
    [S |-> IF H.player THEN player_release(S) ELSE S,
     H |-> [H EXCEPT !.playerReleases = IF H.player THEN @ + 1 ELSE @,
                     !.instanceReleases = IF H.instance THEN @ + 1 ELSE @,
                     !.disposed = TRUE,
                     !.loaded = S.playerMedia]]

\* The session object is collected; the interpreter calls __del__ once.
Dispose ==
    /\ ~handles.disposed
    /\ LET r == del(Session, handles)
       IN  /\ playerState' = r.S.playerState
           /\ playerMedia' = r.S.playerMedia
           /\ medias' = r.S.medias
           /\ handles' = r.H
           /\ pcall' = [NoPCall EXCEPT
                           !.op = "__del__", !.priorVolume = volume,
                           !.left = r.S.playerState,
                           !.prevPlay = PrevPlay]
    /\ UNCHANGED <<volume, playerVolume>>
    /\ UNCHANGED cacheVars

InitPlay ==
    /\ volume = InitVolume
    /\ playerState = "NothingSpecial"
    /\ playerMedia = 0
    /\ playerVolume = -1
    /\ medias = <<>>
    /\ pcall = NoPCall
    /\ handles \in Constructions

----------------------------------------------------------------------------
(* Specifications *)

Init == InitCache /\ InitPlay

NextCache == GetStations \/ Tick

NextPlay == Play \/ SetVolume \/ Stop \/ EngineEvent \/ Dispose

Next == NextCache \/ NextPlay

\* The whole program.
Spec == Init /\ [][Next]_vars

\* The two flows are independent: get_stations never touches the player,
\* and play, set_volume and stop never touch the cache.
CacheSpec == Init /\ [][NextCache]_vars

PlaySpec == Init /\ [][NextPlay]_vars

----------------------------------------------------------------------------
(* Claims about the station cache *)

Indices(db, country) == {i \in 1..Len(db) : db[i].country = country}

\* A row without its time stamp: the station id and the field values.
Content(row) ==
    [id |-> row.id, name |-> row.name, url |-> row.url,
     country |-> row.country, code |-> row.code, tags |-> row.tags,
     homepage |-> row.homepage, lat |-> row.lat, lon |-> row.lon]

\* How often the content c is among the rows of db.
Copies(db, c) == Cardinality({i \in 1..Len(db) : Content(db[i]) = c})

SameContent(db1, db2) ==
    \A c \in {Content(r) : r \in Range(db1) \cup Range(db2)} :
        Copies(db1, c) = Copies(db2, c)

\* The last call was a get_stations whose SELECT ran.
Looked == call.op = "get_stations" /\ call.failure # "read"

\* The rows of the file that the SELECT of the last call found fresh.
FreshAtCall ==
    {i \in Indices(call.before, call.country) : Fresh(call.before[i], call.at)}

\* C1: cache hit.  When the store holds a fresh row for the country asked
\* for and the lookup runs, get_stations issues no directory call and
\* returns exactly the fresh rows of that country, with their number as
\* the count.
C1_CacheHit ==
    (Looked /\ FreshAtCall # {}) =>
        /\ call.netCalls = 0
        /\ Range(call.stations) = {call.before[i] : i \in FreshAtCall}
        /\ Len(call.stations) = Cardinality(FreshAtCall)
        /\ call.count = Cardinality(FreshAtCall)
        /\ ~call.raised

\* A hit that returns one of two rows of the country: the other is stale.
C1_Witness ==
    /\ Looked /\ FreshAtCall # {}
    /\ call.count = 1
    /\ Cardinality(Indices(call.before, call.country)) = 2

\* A station object s is readable from db: some row carries its id and
\* its field values.
Readable(db, s) == \E i \in 1..Len(db) : Content(db[i]) = Content(RowOf(s, 0))

\* C2: cache miss.  With no fresh row for the country, get_stations issues
\* exactly one directory search, and the stations it returns are in the
\* store, readable by a later lookup, when it returns.
C2_WriteThrough ==
    (Looked /\ FreshAtCall = {}) =>
        /\ call.netCalls = 1
        /\ \A i \in 1..Len(call.stations) : Readable(store, call.stations[i])

\* C3 as amended: the lookup returns a row of the country exactly when
\* now - last_updated < expiry; a row whose age equals the expiry is stale.
C3_FreshIsStrict ==
    Looked =>
        \A i \in Indices(call.before, call.country) :
            (call.before[i] \in Range(call.cached))
                <=> (call.at - call.before[i].last_updated < cache_expiry)

\* A lookup made when a row of the country is exactly cache_expiry old:
\* the row is not returned.
C3_Witness ==
    /\ Looked
    /\ \E i \in Indices(call.before, call.country) :
          /\ call.at - call.before[i].last_updated = cache_expiry
          /\ call.before[i] \notin Range(call.cached)

\* C3 as claimed: the lookup returns a row of the country exactly when
\* now - last_updated <= expiry, the boundary included.
C3_FreshIsInclusive ==
    Looked =>
        \A i \in Indices(call.before, call.country) :
            (call.before[i] \in Range(call.cached))
                <=> (call.at - call.before[i].last_updated <= cache_expiry)

\* C4: get_stations never raises; when the directory search fails
\* (unreachable, timeout, non-2xx, malformed JSON) or the store fails, it
\* returns ([], 0).
C4_NeverRaises ==
    call.op = "get_stations" =>
        /\ ~call.raised
        /\ call.failure # "none" => (call.stations = <<>> /\ call.count = 0)

\* A call whose directory search failed.
C4_Witness ==
    /\ call.op = "get_stations"
    /\ call.failure \in TransportFailures
    /\ call.netCalls = 1
    /\ call.logged

NoAbsentId(db) == \A i \in 1..Len(db) : db[i].id # None

\* C6: a station object without an id is rejected by the store: the
\* writing statement does not take it, no stored row has an absent id, and
\* the objects of the batch that have an id are stored all the same.
C6_RejectsMissingId ==
    (call.op = "get_stations" /\ call.wrote) =>
        /\ NoAbsentId(call.txn)
        /\ NoAbsentId(store)
        /\ \A i \in 1..Len(call.fetched) :
              call.fetched[i].stationuuid # None
                  => Readable(store, call.fetched[i])

----------------------------------------------------------------------------
(* Claims about the playback session *)

\* The media objects that still hold a reference: created, not released.
Unreleased == {i \in 1..Len(medias) : medias[i].refs > 0}

\* The last call was a play in which an engine call failed.
PlayFailed == pcall.op = "play" /\ pcall.fail # "none"

PlaySucceeded == pcall.op = "play" /\ pcall.fail = "none"

\* C7: after a successful play that follows a successful play, exactly
\* one media object is unreleased: the one bound to the player, the media
\* of the url just played; the media of the play before is released.
C7_OneMediaResource ==
    (PlaySucceeded /\ pcall.prevPlay = "ok") =>
        /\ Unreleased = {playerMedia}
        /\ medias[playerMedia].url = pcall.url

Position(cmds, c) ==
    IF \E i \in 1..Len(cmds) : cmds[i] = c
    THEN CHOOSE i \in 1..Len(cmds) : cmds[i] = c
    ELSE 0

\* C8: when play is called while the player is playing, the engine's stop
\* completes before the new media is created, bound and started.
C8_StopBeforeLoad ==
    (pcall.op = "play" /\ pcall.wasPlaying) =>
        \A c \in {"media_new", "set_media", "play"} :
            Position(pcall.cmds, c) > 0 =>
                /\ Position(pcall.cmds, "stop") > 0
                /\ Position(pcall.cmds, "stop") < Position(pcall.cmds, c)

\* A play that was called while the player was playing and started the
\* new media.
C8_Witness ==
    /\ pcall.op = "play" /\ pcall.wasPlaying /\ pcall.ret
    /\ Position(pcall.cmds, "play") > 0
    /\ playerMedia > 1

C10_VolumeInRange ==
    /\ volume \in 0..100
    /\ pcall.op = "set_volume" =>
          IF pcall.v \in 0..100
          THEN /\ volume = pcall.v
               /\ playerVolume = pcall.v
               /\ pcall.cmds = <<"audio_set_volume">>
          ELSE /\ volume = pcall.priorVolume
               /\ pcall.cmds = <<>>

\* set_volume(150) ignored after the volume was set to 0.
C10_Witness ==
    /\ pcall.op = "set_volume" /\ pcall.v = 150
    /\ volume = 0

\* C11 as claimed: stop() called twice in a row on an idle session does
\* not raise and leaves the session in state Stopped.
C11_TwoStopsLeaveStopped ==
    (pcall.op = "stop" /\ pcall.idleStops = 2) =>
        /\ ~pcall.raised
        /\ pcall.left = "Stopped"

\* C11 as amended: stop() called twice in a row on an idle session does
\* not raise, sends no stop command and leaves the session idle.
C11_TwoStopsLeaveIdle ==
    (pcall.op = "stop" /\ pcall.idleStops = 2) =>
        /\ ~pcall.raised
        /\ Position(pcall.cmds, "stop") = 0
        /\ pcall.left = "NothingSpecial"
        /\ playerState = "NothingSpecial"

\* The second of two stop calls on an idle session.
C11_Witness ==
    /\ pcall.op = "stop" /\ pcall.idleStops = 2
    /\ pcall.fail = "none"

\* C12: every stop() call leaves the volume, the loaded media and the
\* media objects as they are and does not raise; called while the player
\* is not playing it sends no stop command and leaves the player's state
\* unchanged; called while the player is playing, the engine answering,
\* it sends the stop command and the player is Stopped.
C12_StopFrame ==
    [][Stop =>
        /\ volume' = volume
        /\ playerVolume' = playerVolume
        /\ playerMedia' = playerMedia
        /\ medias' = medias
        /\ ~pcall'.raised
        /\ ~is_playing(Session) =>
              /\ playerState' = playerState
              /\ Position(pcall'.cmds, "stop") = 0
        /\ (is_playing(Session) /\ pcall'.fail = "none") =>
              /\ playerState' = "Stopped"
              /\ Position(pcall'.cmds, "stop") > 0]_vars

\* stop() called on a player that an earlier stop() had stopped.
C12_Witness ==
    /\ pcall.op = "stop" /\ ~pcall.wasPlaying /\ pcall.fail = "none"
    /\ pcall.left = "Stopped"
    /\ playerMedia > 0

\* C13 as claimed: once the session is disposed of, no stream is playing,
\* each handle that was acquired has been released exactly once, and the
\* media that was loaded is released: no reference to it is left.
C13_TeardownReleasesAll ==
    handles.disposed =>
        /\ ~is_playing(Session)
        /\ handles.player => handles.playerReleases = 1
        /\ handles.instance => handles.instanceReleases = 1
        /\ handles.loaded > 0 => medias[handles.loaded].refs = 0

\* C14 as claimed: when the read of the cache fails inside get_stations,
\* the call goes on as after a miss: it issues the directory search and
\* does not take the path that logs and answers ([], 0).
C14_ReadFailureIsMiss ==
    (call.op = "get_stations" /\ call.failure = "read") =>
        /\ call.netCalls = 1
        /\ ~call.logged

\* No row of table new carries an id that table old holds with a later
\* last_updated.
NeverOlder(old, new) ==
    \A i \in 1..Len(old), j \in 1..Len(new) :
        (old[i].id # None /\ new[j].id = old[i].id) =>
            new[j].last_updated >= old[i].last_updated

\* C15: after every get_stations call, a station id that was stored at
\* entry has kept or raised its last_updated, in the file and in the table
\* as the writing connection of _cache_stations left it.  (get_stations
\* is the only step that writes the table.)
C15_LastUpdatedMonotone ==
    call.op = "get_stations" =>
        /\ NeverOlder(call.before, store)
        /\ call.wrote => NeverOlder(call.before, call.txn)

\* _cache_stations re-wrote a stored id with a later time.
C15_Witness ==
    /\ call.wrote
    /\ \E i \in 1..Len(call.before), j \in 1..Len(call.txn) :
          /\ call.before[i].id # None
          /\ call.txn[j].id = call.before[i].id
          /\ call.txn[j].last_updated > call.before[i].last_updated

\* C16: the session's volume is what it was before the last call, unless
\* that call was set_volume with a value in 0..100: play, whether it
\* succeeds or fails, and stop leave it as it was, and so does a set_volume
\* out of range.
C16_VolumeSticky ==
    (pcall.op # "set_volume" \/ pcall.v \notin 0..100) =>
        volume = pcall.priorVolume

\* Both cases on a volume that is not the default: a play that replaced a
\* playing stream, and a stop of a playing stream.
C16_Witness ==
    /\ volume = 0
    /\ pcall.wasPlaying
    /\ \/ pcall.op = "play" /\ pcall.ret
       \/ pcall.op = "stop" /\ pcall.left = "Stopped"

\* The engine accepted the play command of the last play call:
\* player.play() answered 0.
PlayAccepted == Position(pcall.cmds, "play") > 0

\* The media bound to the player is the one made for the url of the call.
CurrentMediaIsForUrl ==
    /\ playerMedia > 0
    /\ medias[playerMedia].url = pcall.url
    /\ playerMedia = Len(medias)

\* C17 as claimed: play(url) returns true exactly when the engine accepted
\* the play command, and then the session is Playing with the media for
\* url as the current media.
C17_TrueMeansPlaying ==
    pcall.op = "play" =>
        /\ pcall.ret <=> PlayAccepted
        /\ pcall.ret => (pcall.left = "Playing" /\ CurrentMediaIsForUrl)

\* C17 as amended: play(url) returns true exactly when the engine accepted
\* the play command, and then the media for url is the current media and
\* the player is opening the stream: it is not yet playing.
C17_TrueMeansAccepted ==
    pcall.op = "play" =>
        /\ pcall.ret <=> PlayAccepted
        /\ pcall.ret => (pcall.left = "Opening" /\ CurrentMediaIsForUrl)

\* A play that returned true, replacing a stream that was playing.
C17_Witness ==
    /\ pcall.op = "play" /\ pcall.ret /\ pcall.wasPlaying
    /\ pcall.url = "urlB"

\* The last get_stations call asked the directory and got no station: an
\* empty array, or a failed request.
EmptyOrFailed ==
    /\ call.op = "get_stations" /\ call.netCalls = 1
    /\ call.fetched = <<>>

\* A get_stations(country) on file db at time t, all going well, asks the
\* directory.
Refetches(db, country, t) ==
    get_stations(db, country, t, FALSE, [kind |-> "ok", body |-> <<>>], 0,
                 FALSE).call.netCalls = 1

\* C18: after a search for a country that gave no station or failed, the
\* table holds the rows it held before, in the file and as the writing
\* connection left it, and a get_stations for that country at any later
\* time inside the expiry window asks the directory again.
C18_NoNegativeCache ==
    EmptyOrFailed =>
        /\ store = call.before
        /\ call.wrote => call.txn = call.before
        /\ \A t \in clock..(call.at + cache_expiry) :
              Refetches(store, call.country, t)

\* The directory answered with an empty array, the write went through,
\* and the expiry window of that call is still open.
C18_Witness ==
    /\ EmptyOrFailed /\ call.wrote
    /\ clock < call.at + cache_expiry
    /\ call.before # <<>>

\* The stationuuid values of a JSON array, the ids of a list of rows.
Uuids(stations) == {stations[i].stationuuid : i \in 1..Len(stations)}

Ids(rows) == {rows[i].id : i \in 1..Len(rows)}

\* The last get_stations call missed, fetched a batch that is not empty
\* and passed it to _cache_stations; every station of the batch has an id
\* of its own and the country that was asked for.
FetchedAndWrote ==
    /\ call.op = "get_stations" /\ call.wrote /\ call.fetched # <<>>
    /\ None \notin Uuids(call.fetched)
    /\ Cardinality(Uuids(call.fetched)) = Len(call.fetched)
    /\ \A i \in 1..Len(call.fetched) : call.fetched[i].country = call.country

\* C19 as claimed: after such a call, a second get_stations for the same
\* country at any time at which the rows written are still fresh, with no
\* write in between, asks the directory nothing and returns the stations
\* of the batch: the same ids, the same count.
C19_RoundTrip ==
    FetchedAndWrote =>
        \A t2 \in clock..MaxTime :
            (\A j \in 1..Len(call.txn) : Fresh(call.txn[j], t2)) =>
                LET second == get_stations(store, call.country, t2, FALSE,
                                  [kind |-> "ok", body |-> <<>>], 0,
                                  FALSE).call
                IN  /\ second.netCalls = 0
                    /\ second.count = Len(call.fetched)
                    /\ Ids(second.stations) = Uuids(call.fetched)

====
